---------------------------- MODULE Spec2Model ----------------------------
(***************************************************************************)
(* Hybrid retrieval engine of the AI code remediation microservice:        *)
(* VectorStore (src/vector_store.py), Retriever (src/retriever.py) and the *)
(* rebuild helper of src/test_faiss.py.                                    *)
(*                                                                         *)
(* Text is modelled as a sequence of atoms.  An atom is one character, or  *)
(* one of the literal markers the code searches for.  The sentence         *)
(* embedding model is an arbitrary deterministic function from text to a   *)
(* vector; vectors are points 0..VecMax of a line and the L2 index ranks   *)
(* them by squared distance.                                               *)
(***************************************************************************)
EXTENDS Integers, Sequences, FiniteSets, TLC

VARIABLES
    recipes,     \* the recipe directory: its *.txt files in glob order
    disk,        \* what is at index_path: a directory and its three files, or a file
    enc,         \* the texts the encoder has embedded so far, with their vectors
    pc,          \* where each process stands
    fresh,       \* the VectorStore object each process is constructing
    store,       \* the VectorStore object each process serves reads from
    origin,      \* how that object came to be: "built" or "loaded"
    rebuilding,  \* the process is inside rebuild_store
    call         \* the last search or retrieve call, with its result

vars == <<recipes, disk, enc, pc, fresh, store, origin, rebuilding, call>>

-----------------------------------------------------------------------------
(* Bounds of the model *)

MaxFiles == 2
MaxDocs == 2
MaxK == 2
MaxBlocks == 3
VecMax == 1
NProcs == 2

(* Program constant: code[:500] in Retriever.retrieve *)
CodeSliceLen == 500

Procs == 1..NProcs
Vec == 0..VecMax
None == [none |-> TRUE]

-----------------------------------------------------------------------------
(* Python string operations on atom sequences *)

Whitespace == {" ", "\n", "\t"}

Take(s, n) == SubSeq(s, 1, IF n < Len(s) THEN n ELSE Len(s))

Drop(s, n) == SubSeq(s, n + 1, Len(s))

\* least index i >= from with s[i] = a, or 0
IndexFrom(s, a, from) ==
    LET hits == {i \in from..Len(s) : s[i] = a}
    IN  IF hits = {} THEN 0 ELSE CHOOSE i \in hits : \A j \in hits : i <= j

\* str.strip()
Strip(s) ==
    LET keep == {i \in 1..Len(s) : s[i] \notin Whitespace}
    IN  IF keep = {} THEN <<>>
        ELSE LET lo == CHOOSE i \in keep : \A j \in keep : i <= j
                 hi == CHOOSE i \in keep : \A j \in keep : i >= j
             IN  SubSeq(s, lo, hi)

\* str.startswith(prefix)
StartsWith(s, prefix) ==
    /\ Len(s) >= Len(prefix)
    /\ SubSeq(s, 1, Len(prefix)) = prefix

\* s.split(a, 1)[1], for s that contains a
AfterFirst(s, a) == Drop(s, IndexFrom(s, a, 1))

\* f.readline(): up to and including the first line break
ReadLine(s) ==
    LET i == IndexFrom(s, "\n", 1)
    IN  IF i = 0 THEN s ELSE SubSeq(s, 1, i)

\* f.read() after one readline()
ReadRest(s) ==
    LET i == IndexFrom(s, "\n", 1)
    IN  IF i = 0 THEN <<>> ELSE Drop(s, i)

CweHeader == <<"c", "w", "e", ":">>

-----------------------------------------------------------------------------
(* VectorStore._parse_recipes *)

HeaderOK(file) == StartsWith(Strip(ReadLine(file)), CweHeader)

\* _parse_recipes recording a language for each recipe
ParseOneWithLanguage(file) ==
    [metadata |-> [cwe |-> Strip(AfterFirst(Strip(ReadLine(file)), ":")),
                   tags |-> <<>>,
                   languages |-> <<"java">>],
     content |-> ReadRest(file)]

ParseOne(file) ==
    [metadata |-> [cwe |-> Strip(AfterFirst(Strip(ReadLine(file)), ":")),
                   tags |-> <<>>,
                   languages |-> <<>>],
     content |-> ReadRest(file)]

\* _parse_recipes giving up at the first file without a header
RECURSIVE ParseFromAbort(_, _, _)
ParseFromAbort(files, i, docs) ==
    IF i > Len(files) THEN docs
    ELSE IF ~HeaderOK(files[i]) THEN docs
    ELSE ParseFromAbort(files, i + 1, Append(docs, ParseOne(files[i])))

RECURSIVE ParseFrom(_, _, _)
ParseFrom(files, i, docs) ==
    IF i > Len(files) THEN docs
    ELSE IF ~HeaderOK(files[i]) THEN ParseFrom(files, i + 1, docs)
    ELSE ParseFrom(files, i + 1, Append(docs, ParseOne(files[i])))

ParseRecipes(files) == ParseFrom(files, 1, <<>>)

-----------------------------------------------------------------------------
(* Retriever._extract_focused_context *)

Sentinel == <<"No specific guidance found.">>

\* the literal "name: " is this atom followed by a space
NameMarker == "name:"
DescMarker == "Short Description:"
CheckMarker == "Secure Coding Checklist:"
FixMarker == "Sample Fix Idea"

\* atoms whose first character is in [A-Z]
UpperAtoms ==
    {"A", "S", "U", DescMarker, CheckMarker, FixMarker, "No specific guidance found."}

\* (.*) after position i: up to the next line break, which . does not match
RestOfLine(s, i) ==
    LET j == IndexFrom(s, "\n", i + 1)
    IN  IF j = 0 THEN Drop(s, i) ELSE SubSeq(s, i + 1, j - 1)

\* (.*?)(?:\n\n[A-Z]|\Z) after position i, with DOTALL: the shortest span
SectionAfter(s, i) ==
    LET ends == {j \in (i + 1)..(Len(s) + 1) :
                    \/ j = Len(s) + 1
                    \/ /\ j + 2 <= Len(s)
                       /\ s[j] = "\n"
                       /\ s[j + 1] = "\n"
                       /\ s[j + 2] \in UpperAtoms}
        j == CHOOSE e \in ends : \A f \in ends : e <= f
    IN  SubSeq(s, i + 1, j - 1)

NameOf(content) ==
    LET hits == {i \in 1..(Len(content) - 1) :
                    content[i] = NameMarker /\ content[i + 1] = " "}
    IN  IF hits = {} THEN <<>>
        ELSE LET i == CHOOSE h \in hits : \A g \in hits : h <= g
             IN  Strip(RestOfLine(content, i + 1))

DescriptionOf(content) ==
    LET i == IndexFrom(content, DescMarker, 1)
    IN  IF i = 0 THEN <<>> ELSE Strip(SectionAfter(content, i))

ChecklistOf(content) ==
    LET i == IndexFrom(content, CheckMarker, 1)
    IN  IF i = 0 THEN <<>> ELSE Strip(SectionAfter(content, i))

FixIdeaOf(content) ==
    LET i == IndexFrom(content, FixMarker, 1)
    IN  IF i = 0 THEN <<>> ELSE Strip(Drop(content, i - 1))

\* "\n".join(parts): a single line break
RECURSIVE JoinPartsSingleBreak(_)
JoinPartsSingleBreak(parts) ==
    IF Len(parts) = 1 THEN parts[1]
    ELSE parts[1] \o <<"\n">> \o JoinPartsSingleBreak(Tail(parts))

\* "\n\n".join(parts)
RECURSIVE JoinParts(_)
JoinParts(parts) ==
    IF Len(parts) = 1 THEN parts[1]
    ELSE parts[1] \o <<"\n", "\n">> \o JoinParts(Tail(parts))

ExtractFocusedContext(content) ==
    LET name == NameOf(content)
        description == DescriptionOf(content)
        checklist == ChecklistOf(content)
        fix_idea == FixIdeaOf(content)
        parts ==
            (IF name # <<>> THEN <<(<<"**">> \o name \o <<"**">>)>> ELSE <<>>)
            \o (IF description # <<>> THEN <<description>> ELSE <<>>)
            \o (IF checklist # <<>>
                THEN <<(<<"**Checklist:**", "\n">> \o checklist)>> ELSE <<>>)
            \o (IF fix_idea # <<>>
                THEN <<(<<"**Fix Idea:**", "\n">> \o fix_idea)>> ELSE <<>>)
    IN  IF parts = <<>> THEN Sentinel ELSE JoinParts(parts)

-----------------------------------------------------------------------------
(* Embedding encoder and the L2 index (faiss.IndexIDMap over IndexFlatL2) *)

\* squared L2 distance
Dist(a, b) == (a - b) * (a - b)

CWE79 == <<"C", "W", "E", "-", "7", "9">>
CWE89 == <<"C", "W", "E", "-", "8", "9">>

QueryIds == {CWE79, CWE89}

\* The encoder is any function of the text, except that it gives the two
\* weakness ids above different vectors; other texts may share a vector.
SeparatesIds(e) ==
    \A a, b \in DOMAIN e \cap QueryIds : a # b => e[a] # e[b]

\* SentenceTransformer.encode of one text: the vector the encoder has already
\* given that text, or any vector it can give a text it has not encoded before
EncodeChoices(text) ==
    IF text \in DOMAIN enc THEN {enc[text]}
    ELSE {v \in Vec : SeparatesIds((text :> v) @@ enc)}

\* _create_index numbering the rows from 1
CreateIndexFromOne(embeddings) ==
    [rows |-> [i \in 1..Len(embeddings) |-> [id |-> i, vec |-> embeddings[i]]]]

\* VectorStore._create_index: row i carries id i (numpy.arange, from 0)
CreateIndex(embeddings) ==
    [rows |-> [i \in 1..Len(embeddings) |-> [id |-> i - 1, vec |-> embeddings[i]]]]

Min(a, b) == IF a < b THEN a ELSE b

\* index.search(qv, k): the ids of the k nearest rows in ascending distance,
\* padded with -1 when the index has fewer than k rows.  The order of rows at
\* equal distance is not specified by the library: every order is possible.
IndexSearch(ix, qv, k) ==
    LET index == ix.rows
        n == Len(index)
        m == Min(k, n)
        picks == {f \in [1..m -> 1..n] :
                    /\ \A a, b \in 1..m : a # b => f[a] # f[b]
                    /\ \A a, b \in 1..m :
                          a < b => Dist(index[f[a]].vec, qv) <= Dist(index[f[b]].vec, qv)
                    /\ \A r \in 1..n :
                          (\A a \in 1..m : f[a] # r) =>
                              \A a \in 1..m :
                                  Dist(index[f[a]].vec, qv) <= Dist(index[r].vec, qv)}
    IN  {[j \in 1..k |-> IF j <= m THEN index[f[j]].id ELSE -1] : f \in picks}

IndexError == <<[error |-> "IndexError"]>>

\* documents[i] for each i of ids; an id past the table raises IndexError
DocsAt(documents, ids) ==
    IF \E j \in 1..Len(ids) : ids[j] + 1 > Len(documents)
    THEN IndexError
    ELSE [j \in 1..Len(ids) |-> documents[ids[j] + 1]]

-----------------------------------------------------------------------------
(* VectorStore.search_cwe and VectorStore.search_full_text *)

HasLanguage(doc, language) ==
    \E i \in 1..Len(doc.metadata.languages) : doc.metadata.languages[i] = language

\* candidate_indices: 0-based positions of the documents that pass the filter
CandidateIndices(documents, filter) ==
    IF filter = None THEN {i - 1 : i \in 1..Len(documents)}
    ELSE {i - 1 : i \in {j \in 1..Len(documents) :
                            HasLanguage(documents[j], filter.language)}}

\* for i in indices[0]: if i in candidate_indices: append; stop at len == k
RECURSIVE FilterLoop(_, _, _, _, _)
FilterLoop(candidates, ids, j, k, results) ==
    IF j > Len(ids) THEN results
    ELSE IF ids[j] \in candidates
         THEN LET r == Append(results, ids[j])
              IN  IF Len(r) = k THEN r ELSE FilterLoop(candidates, ids, j + 1, k, r)
         ELSE FilterLoop(candidates, ids, j + 1, k, results)

\* search_full_text: the id sequences it can select for query vector qv
SearchFullText(st, qv, k, filter) ==
    IF st.full_text_index = None THEN {<<>>}
    ELSE LET candidates == CandidateIndices(st.documents, filter)
         IN  IF candidates = {} THEN {<<>>}
             ELSE {FilterLoop(candidates, ids, 1, k, <<>>) :
                      ids \in IndexSearch(st.full_text_index, qv,
                                          Cardinality(candidates))}

\* search_cwe keeping only the rows at distance 0 from the query
SearchCweThreshold(st, qv, k) ==
    IF st.cwe_index = None THEN {<<>>}
    ELSE {SelectSeq(ids, LAMBDA i :
                 /\ i # -1
                 /\ \E r \in 1..Len(st.cwe_index.rows) :
                       /\ st.cwe_index.rows[r].id = i
                       /\ Dist(st.cwe_index.rows[r].vec, qv) = 0) :
             ids \in IndexSearch(st.cwe_index, qv, k)}

\* search_cwe: the id sequences it can select for query vector qv
SearchCwe(st, qv, k) ==
    IF st.cwe_index = None THEN {<<>>}
    ELSE {SelectSeq(ids, LAMBDA i : i # -1) : ids \in IndexSearch(st.cwe_index, qv, k)}

\* f"{language} {cwe} {code[:500]}"
CompositeQuery(cwe, language, code) ==
    <<language, " ">> \o cwe \o <<" ">> \o Take(code, CodeSliceLen)

\* Retriever.retrieve after the two searches
RetrieveResult(raw_content) ==
    IF raw_content = <<>> THEN Sentinel ELSE ExtractFocusedContext(raw_content)

-----------------------------------------------------------------------------
(* Inputs: recipe files, snapshot documents, queries *)

\* the recipe body of Scenario A
ContentFull ==
    <<NameMarker, " ", "S", "\n",
      DescMarker, " ", "U", "\n", "\n",
      CheckMarker, "\n", "-", "\n", "\n",
      FixMarker, "\n", "U">>

ContentFix == <<FixMarker, "\n", "A">>

ContentPlain == <<"a">>

\* "cwe: CWE-79\n" and the Scenario A body
File79Full == CweHeader \o <<" ">> \o CWE79 \o <<"\n">> \o ContentFull

\* "cwe:CWE-89\n" and a body with only a fix idea
File89Fix == CweHeader \o CWE89 \o <<"\n">> \o ContentFix

\* "cwe: CWE-79" and nothing else: an empty body
File79Empty == CweHeader \o <<" ">> \o CWE79

\* a first line that is no header
FileNoHeader == CWE79 \o <<"\n">> \o ContentFull

SearchFiles == {File79Full, File89Fix, File79Empty, FileNoHeader}

\* an empty file
FileEmpty == <<>>

\* " cwe: CWE-89 \n": the header line is stripped before it is tested
FileIndented == <<" ">> \o CweHeader \o <<" ">> \o CWE89 \o <<" ", "\n">> \o ContentFix

\* "CWE: CWE-79\n": the test is case sensitive
FileUpper == <<"C", "W", "E", ":", " ">> \o CWE79 \o <<"\n">> \o ContentFull

\* "cwe:\n": a header with an empty id
FileNoId == CweHeader \o <<"\n">> \o ContentPlain

\* a blank first line, the header on the second
FileLateHeader == <<"\n">> \o File79Full

ParseFiles ==
    SearchFiles \cup {FileEmpty, FileIndented, FileUpper, FileNoId, FileLateHeader}

Corpora(files) == UNION {[1..n -> files] : n \in 0..MaxFiles}

\* pieces of recipe bodies: each of the four sections filled and blank, the
\* sentinel text as a description, a checklist ended by a single line break,
\* plain text, and the whole Scenario A body
ExtractBlocks ==
    {<<NameMarker, " ", "S", "\n">>,
     <<NameMarker, " ", "\n">>,
     <<DescMarker, " ", "U", "\n", "\n">>,
     <<DescMarker, " ", "\n", "\n">>,
     <<DescMarker, " ", "No specific guidance found.">>,
     <<CheckMarker, "\n", "-", "\n", "\n">>,
     <<CheckMarker, "\n">>,
     <<FixMarker, "\n", "U">>,
     <<"a", "\n", "\n">>,
     ContentFull}

RECURSIVE Flatten(_)
Flatten(blocks) ==
    IF blocks = <<>> THEN <<>> ELSE Head(blocks) \o Flatten(Tail(blocks))

\* the contents _extract_focused_context is applied to
ExtractContents ==
    UNION {{Flatten(bs) : bs \in [1..n -> ExtractBlocks]} : n \in 0..MaxBlocks}

Languages == {"java", "python"}

\* documents of a snapshot written by a build that recorded languages
SnapshotDocs ==
    {[metadata |-> [cwe |-> c, tags |-> <<>>, languages |-> l],
      content |-> IF c = CWE79 THEN ContentFull ELSE ContentFix] :
        c \in {CWE79, CWE89},
        l \in {<<>>, <<"java">>}}

SnapshotDocLists == UNION {[1..n -> SnapshotDocs] : n \in 1..MaxDocs}

TextsOf(docs) ==
    {docs[i].metadata.cwe : i \in 1..Len(docs)} \cup {docs[i].content : i \in 1..Len(docs)}

QueryTexts == {<<"q">>}

Codes == {<<"<script>">>, [i \in 1..(CodeSliceLen + 1) |-> "x"]}

Filters == {None} \cup {[language |-> l] : l \in Languages}

-----------------------------------------------------------------------------
(* State *)

\* nothing at index_path
NoDisk == [dir |-> FALSE, file |-> FALSE, cwe |-> None, ft |-> None, docs |-> None]

\* index_path exists and is a regular file, not a directory
StrayFile == [NoDisk EXCEPT !.file = TRUE]

\* VectorStore.__init__ before _load_or_build
EmptyStore == [documents |-> <<>>, cwe_index |-> None, full_text_index |-> None]

NoCall == [op |-> "none"]

\* what _build_indexes leaves under index_path for these documents
SnapshotOf(docs, e) ==
    [dir |-> TRUE,
     file |-> FALSE,
     cwe |-> CreateIndex([i \in 1..Len(docs) |-> e[docs[i].metadata.cwe]]),
     ft |-> CreateIndex([i \in 1..Len(docs) |-> e[docs[i].content]]),
     docs |-> [table |-> docs]]

SnapshotComplete == disk.dir /\ disk.cwe # None /\ disk.ft # None /\ disk.docs # None

ActivePcs ==
    {"init", "rmtree", "load_cwe", "load_ft", "load_docs", "build", "encode",
     "mkdir", "write_cwe", "write_ft", "write_docs"}

InitProcs ==
    /\ pc = [p \in Procs |-> "idle"]
    /\ fresh = [p \in Procs |-> EmptyStore]
    /\ store = [p \in Procs |-> EmptyStore]
    /\ origin = [p \in Procs |-> "none"]
    /\ rebuilding = [p \in Procs |-> FALSE]
    /\ call = NoCall

\* an exception inside the constructor: it ends the process, except in
\* rebuild_store, whose caller logs it and keeps the store it had; the object
\* under construction is dropped
Raise(p) ==
    /\ pc' = [pc EXCEPT ![p] = IF rebuilding[p] THEN "ready" ELSE "failed"]
    /\ rebuilding' = [rebuilding EXCEPT ![p] = FALSE]
    /\ fresh' = [fresh EXCEPT ![p] = store[p]]
    /\ UNCHANGED <<store, origin>>

\* the constructor returns: the object becomes the store the process reads
Return(p, st, how) ==
    /\ pc' = [pc EXCEPT ![p] = "ready"]
    /\ fresh' = [fresh EXCEPT ![p] = st]
    /\ store' = [store EXCEPT ![p] = st]
    /\ origin' = [origin EXCEPT ![p] = how]
    /\ rebuilding' = [rebuilding EXCEPT ![p] = FALSE]

Goto(p, next, st) ==
    /\ pc' = [pc EXCEPT ![p] = next]
    /\ fresh' = [fresh EXCEPT ![p] = st]
    /\ UNCHANGED <<store, origin, rebuilding>>

-----------------------------------------------------------------------------
(* VectorStore.__init__, _load_or_build, _build_indexes, one file access a step *)

\* __init__ and the test of _load_or_build
Construct(p) ==
    /\ pc[p] \in {"idle", "init"}
    /\ Goto(p, IF disk.dir THEN "load_cwe" ELSE "build", EmptyStore)
    /\ UNCHANGED <<recipes, disk, enc, call>>

LoadCwe(p) ==
    /\ pc[p] = "load_cwe"
    /\ IF disk.cwe = None THEN Raise(p)
       ELSE Goto(p, "load_ft", [fresh[p] EXCEPT !.cwe_index = disk.cwe])
    /\ UNCHANGED <<recipes, disk, enc, call>>

\* _load_or_build reading cwe.index a second time in place of full_text.index
LoadFullTextAsCwe(p) ==
    /\ pc[p] = "load_ft"
    /\ IF disk.cwe = None THEN Raise(p)
       ELSE Goto(p, "load_docs", [fresh[p] EXCEPT !.full_text_index = disk.cwe])
    /\ UNCHANGED <<recipes, disk, enc, call>>

LoadFullText(p) ==
    /\ pc[p] = "load_ft"
    /\ IF disk.ft = None THEN Raise(p)
       ELSE Goto(p, "load_docs", [fresh[p] EXCEPT !.full_text_index = disk.ft])
    /\ UNCHANGED <<recipes, disk, enc, call>>

LoadDocuments(p) ==
    /\ pc[p] = "load_docs"
    /\ IF disk.docs = None THEN Raise(p)
       ELSE Return(p, [fresh[p] EXCEPT !.documents = disk.docs.table], "loaded")
    /\ UNCHANGED <<recipes, disk, enc, call>>

\* _build_indexes without the early return on an empty corpus
BuildParseNoReturn(p) ==
    /\ pc[p] = "build"
    /\ Goto(p, "encode", [fresh[p] EXCEPT !.documents = ParseRecipes(recipes)])
    /\ UNCHANGED <<recipes, disk, enc, call>>

\* _build_indexes up to the early return on an empty corpus
BuildParse(p) ==
    /\ pc[p] = "build"
    /\ LET docs == ParseRecipes(recipes)
           st == [fresh[p] EXCEPT !.documents = docs]
       IN  IF docs = <<>> THEN Return(p, st, "built") ELSE Goto(p, "encode", st)
    /\ UNCHANGED <<recipes, disk, enc, call>>

\* the two encode calls and the two _create_index calls
BuildEncode(p) ==
    /\ pc[p] = "encode"
    /\ LET docs == fresh[p].documents
       IN  \E f \in [TextsOf(docs) \ DOMAIN enc -> Vec] :
              LET e == f @@ enc
              IN  /\ SeparatesIds(e)
                  /\ enc' = e
                  /\ Goto(p, "mkdir",
                          [fresh[p] EXCEPT
                              !.cwe_index =
                                  CreateIndex([i \in 1..Len(docs) |-> e[docs[i].metadata.cwe]]),
                              !.full_text_index =
                                  CreateIndex([i \in 1..Len(docs) |-> e[docs[i].content]])])
    /\ UNCHANGED <<recipes, disk, call>>

\* index_path.mkdir(exist_ok=True): FileExistsError when the path is a file
Mkdir(p) ==
    /\ pc[p] = "mkdir"
    /\ IF disk.file
       THEN UNCHANGED disk /\ Raise(p)
       ELSE disk' = [disk EXCEPT !.dir = TRUE] /\ Goto(p, "write_cwe", fresh[p])
    /\ UNCHANGED <<recipes, enc, call>>

WriteCwe(p) ==
    /\ pc[p] = "write_cwe"
    /\ IF disk.dir
       THEN disk' = [disk EXCEPT !.cwe = fresh[p].cwe_index] /\ Goto(p, "write_ft", fresh[p])
       ELSE UNCHANGED disk /\ Raise(p)
    /\ UNCHANGED <<recipes, enc, call>>

WriteFullText(p) ==
    /\ pc[p] = "write_ft"
    /\ IF disk.dir
       THEN disk' = [disk EXCEPT !.ft = fresh[p].full_text_index]
            /\ Goto(p, "write_docs", fresh[p])
       ELSE UNCHANGED disk /\ Raise(p)
    /\ UNCHANGED <<recipes, enc, call>>

WriteDocuments(p) ==
    /\ pc[p] = "write_docs"
    /\ IF disk.dir
       THEN disk' = [disk EXCEPT !.docs = [table |-> fresh[p].documents]]
            /\ Return(p, fresh[p], "built")
       ELSE UNCHANGED disk /\ Raise(p)
    /\ UNCHANGED <<recipes, enc, call>>

-----------------------------------------------------------------------------
(* Calls on a constructed store *)

DoSearchCwe(p) ==
    /\ pc[p] = "ready"
    /\ call = NoCall
    /\ \E cwe \in QueryIds, k \in 1..MaxK :
          \E qv \in EncodeChoices(cwe) :
             \E hits \in SearchCwe(store[p], qv, k) :
                call' = [op |-> "search_cwe", proc |-> p, cwe |-> cwe, k |-> k,
                         qv |-> qv, hits |-> hits,
                         result |-> DocsAt(store[p].documents, hits)]
    /\ UNCHANGED <<recipes, disk, enc, pc, fresh, store, origin, rebuilding>>

\* search_full_text narrowing self.documents to the candidates, in place
DoSearchFullTextInPlace(p) ==
    /\ pc[p] = "ready"
    /\ call = NoCall
    /\ \E query \in QueryTexts, k \in 0..MaxK, filter \in Filters :
          \E qv \in EncodeChoices(query) :
             \E hits \in SearchFullText(store[p], qv, k, filter) :
                /\ call' = [op |-> "search_full_text", proc |-> p, query |-> query,
                            k |-> k, filter |-> filter, qv |-> qv, hits |-> hits,
                            result |-> DocsAt(store[p].documents, hits)]
                /\ store' = [store EXCEPT ![p].documents =
                                SelectSeq(store[p].documents,
                                          LAMBDA d : filter = None
                                                       \/ HasLanguage(d, filter.language))]
    /\ UNCHANGED <<recipes, disk, enc, pc, fresh, origin, rebuilding>>

DoSearchFullText(p) ==
    /\ pc[p] = "ready"
    /\ call = NoCall
    /\ \E query \in QueryTexts, k \in 0..MaxK, filter \in Filters :
          \E qv \in EncodeChoices(query) :
             \E hits \in SearchFullText(store[p], qv, k, filter) :
                call' = [op |-> "search_full_text", proc |-> p, query |-> query,
                         k |-> k, filter |-> filter, qv |-> qv, hits |-> hits,
                         result |-> DocsAt(store[p].documents, hits)]
    /\ UNCHANGED <<recipes, disk, enc, pc, fresh, store, origin, rebuilding>>

\* the record of a retrieve call: the Tier 1 result, whether Tier 2 ran, the
\* documents the tier in force returned, and the string handed back
RetrieveCall(p, cwe, language, code, tier1, tier2, found) ==
    [op |-> "retrieve", proc |-> p, cwe |-> cwe, language |-> language,
     code |-> code, tier1 |-> tier1, tier2 |-> tier2,
     picked |-> IF found = IndexError THEN <<>> ELSE Take(found, 1),
     raised |-> (found = IndexError),
     result |-> IF found = IndexError THEN <<>>
                ELSE RetrieveResult(IF found = <<>> THEN <<>> ELSE found[1].content)]

\* Retriever.retrieve: both tiers and the extraction
DoRetrieve(p) ==
    /\ pc[p] = "ready"
    /\ call = NoCall
    /\ \E cwe \in QueryIds, language \in Languages, code \in Codes :
          \E qv \in EncodeChoices(cwe) :
             \E hits \in SearchCwe(store[p], qv, 1) :
                LET cwe_results == DocsAt(store[p].documents, hits)
                IN  IF cwe_results # <<>>
                    THEN call' = RetrieveCall(p, cwe, language, code,
                                              cwe_results, FALSE, cwe_results)
                    ELSE \E qv2 \in EncodeChoices(CompositeQuery(cwe, language, code)) :
                            \E hits2 \in SearchFullText(store[p], qv2, 1,
                                                        [language |-> language]) :
                               call' = RetrieveCall(p, cwe, language, code,
                                                    cwe_results, TRUE,
                                                    DocsAt(store[p].documents, hits2))
    /\ UNCHANGED <<recipes, disk, enc, pc, fresh, store, origin, rebuilding>>

\* the call returns to its caller
CallReturn ==
    /\ call # NoCall
    /\ call' = NoCall
    /\ UNCHANGED <<recipes, disk, enc, pc, fresh, store, origin, rebuilding>>

-----------------------------------------------------------------------------
(* One process that constructs a store and queries it *)

InitSearch ==
    /\ InitProcs
    /\ \/ /\ disk = NoDisk
          /\ enc = <<>>
          /\ recipes \in Corpora(SearchFiles)
       \/ /\ recipes = <<>>
          /\ \E docs \in SnapshotDocLists :
                \E e \in [TextsOf(docs) -> Vec] :
                   /\ SeparatesIds(e)
                   /\ enc = e
                   /\ disk = SnapshotOf(docs, e)

NextSearch ==
    \/ Construct(1)
    \/ LoadCwe(1)
    \/ LoadFullText(1)
    \/ LoadDocuments(1)
    \/ BuildParse(1)
    \/ BuildEncode(1)
    \/ Mkdir(1)
    \/ WriteCwe(1)
    \/ WriteFullText(1)
    \/ WriteDocuments(1)
    \/ DoSearchCwe(1)
    \/ DoSearchFullText(1)
    \/ DoRetrieve(1)
    \/ CallReturn

SpecSearch == InitSearch /\ [][NextSearch]_vars

-----------------------------------------------------------------------------
(* One process that parses a recipe directory *)

InitParse ==
    /\ InitProcs
    /\ disk = NoDisk
    /\ enc = <<>>
    /\ recipes \in Corpora(ParseFiles)

NextParse ==
    \/ Construct(1)
    \/ BuildParse(1)

SpecParse == InitParse /\ [][NextParse]_vars

-----------------------------------------------------------------------------
(* Processes that construct, crash and rebuild over one snapshot directory *)

\* the process is killed inside the constructor or rebuild_store: its memory
\* is gone, what it wrote under index_path stays
Crash(p) ==
    /\ pc[p] \in ActivePcs
    /\ pc' = [pc EXCEPT ![p] = "crashed"]
    /\ fresh' = [fresh EXCEPT ![p] = EmptyStore]
    /\ store' = [store EXCEPT ![p] = EmptyStore]
    /\ origin' = [origin EXCEPT ![p] = "none"]
    /\ rebuilding' = [rebuilding EXCEPT ![p] = FALSE]
    /\ UNCHANGED <<recipes, disk, enc, call>>

\* process 1 runs the interactive script of test_faiss.py, which can rebuild;
\* the others run main.py, which constructs its store once
Tools == {1}

\* rebuild_store: the test index_path.exists()
RebuildStart(p) ==
    /\ p \in Tools
    /\ pc[p] = "ready"
    /\ call = NoCall
    /\ pc' = [pc EXCEPT ![p] = IF disk.dir \/ disk.file THEN "rmtree" ELSE "init"]
    /\ rebuilding' = [rebuilding EXCEPT ![p] = TRUE]
    /\ UNCHANGED <<recipes, disk, enc, fresh, store, origin, call>>

\* rebuild_store: shutil.rmtree(index_path), which raises on a path that is
\* gone or is not a directory
Rmtree(p) ==
    /\ pc[p] = "rmtree"
    /\ IF disk.dir
       THEN /\ disk' = NoDisk
            /\ pc' = [pc EXCEPT ![p] = "init"]
            /\ UNCHANGED <<fresh, store, origin, rebuilding>>
       ELSE UNCHANGED disk /\ Raise(p)
    /\ UNCHANGED <<recipes, enc, call>>

\* the encoder of the runs below
LifeEncoder ==
    (CWE79 :> 0) @@ (CWE89 :> 1) @@ (ContentFull :> 1) @@ (ContentFix :> 0)

LifeCorpora ==
    {<<>>, <<FileNoHeader>>, <<File79Full>>, <<File89Fix, File79Full>>}

\* the snapshot an earlier build left, of a corpus that has changed since
StaleDocs ==
    <<[metadata |-> [cwe |-> CWE89, tags |-> <<>>, languages |-> <<"java">>],
       content |-> ContentFix]>>

Init ==
    /\ InitProcs
    /\ enc = LifeEncoder
    /\ recipes \in LifeCorpora
    /\ disk \in {NoDisk, SnapshotOf(StaleDocs, LifeEncoder)}

Next ==
    \E p \in Procs :
        \/ Construct(p)
        \/ LoadCwe(p)
        \/ LoadFullText(p)
        \/ LoadDocuments(p)
        \/ BuildParse(p)
        \/ BuildEncode(p)
        \/ Mkdir(p)
        \/ WriteCwe(p)
        \/ WriteFullText(p)
        \/ WriteDocuments(p)
        \/ RebuildStart(p)
        \/ Rmtree(p)
        \/ Crash(p)

Spec == Init /\ [][Next]_vars

-----------------------------------------------------------------------------
(* The service started twice: process 1 builds and saves the snapshot, then  *)
(* process 2 starts, loads it and is queried                                 *)

\* the second start of the service, after the first start has ended
SecondStart ==
    /\ pc[1] \in {"ready", "failed"}
    /\ call = NoCall
    /\ Construct(2)

InitRoundTrip ==
    /\ InitProcs
    /\ disk = NoDisk
    /\ enc = <<>>
    /\ recipes \in Corpora(SearchFiles)

NextRoundTrip ==
    \/ Construct(1)
    \/ SecondStart
    \/ DoSearchCwe(2)
    \/ DoSearchFullText(2)
    \/ DoRetrieve(2)
    \/ CallReturn
    \/ \E p \in {1, 2} :
          \/ LoadCwe(p)
          \/ LoadFullText(p)
          \/ LoadDocuments(p)
          \/ BuildParse(p)
          \/ BuildEncode(p)
          \/ Mkdir(p)
          \/ WriteCwe(p)
          \/ WriteFullText(p)
          \/ WriteDocuments(p)

SpecRoundTrip == InitRoundTrip /\ [][NextRoundTrip]_vars

-----------------------------------------------------------------------------
(* Two successive starts over whatever is at index_path: nothing, a snapshot *)
(* of an earlier corpus, or a regular file                                   *)

InitStart ==
    /\ InitProcs
    /\ \/ /\ disk \in {NoDisk, StrayFile}
          /\ enc = <<>>
          /\ recipes \in Corpora(SearchFiles)
       \/ /\ disk = SnapshotOf(StaleDocs, LifeEncoder)
          /\ enc = LifeEncoder
          /\ recipes \in LifeCorpora

NextStart ==
    \/ Construct(1)
    \/ SecondStart
    \/ \E p \in {1, 2} :
          \/ LoadCwe(p)
          \/ LoadFullText(p)
          \/ LoadDocuments(p)
          \/ BuildParse(p)
          \/ BuildEncode(p)
          \/ Mkdir(p)
          \/ WriteCwe(p)
          \/ WriteFullText(p)
          \/ WriteDocuments(p)

SpecStart == InitStart /\ [][NextStart]_vars

-----------------------------------------------------------------------------
(* The context extractor applied to recipe bodies *)

\* Retriever._extract_focused_context(content)
DoExtract ==
    /\ call = NoCall
    /\ \E content \in ExtractContents :
          call' = [op |-> "extract", content |-> content,
                   result |-> ExtractFocusedContext(content)]
    /\ UNCHANGED <<recipes, disk, enc, pc, fresh, store, origin, rebuilding>>

InitExtract ==
    /\ InitProcs
    /\ disk = NoDisk
    /\ enc = <<>>
    /\ recipes = <<>>

NextExtract ==
    \/ DoExtract
    \/ CallReturn

SpecExtract == InitExtract /\ [][NextExtract]_vars

-----------------------------------------------------------------------------
(* The interactive script: one process that constructs a store, queries it   *)
(* and rebuilds it                                                           *)

NextReadOnly ==
    \/ Construct(1)
    \/ LoadCwe(1)
    \/ LoadFullText(1)
    \/ LoadDocuments(1)
    \/ BuildParse(1)
    \/ BuildEncode(1)
    \/ Mkdir(1)
    \/ WriteCwe(1)
    \/ WriteFullText(1)
    \/ WriteDocuments(1)
    \/ DoSearchCwe(1)
    \/ DoSearchFullText(1)
    \/ DoRetrieve(1)
    \/ CallReturn
    \/ RebuildStart(1)
    \/ Rmtree(1)

SpecReadOnly == Init /\ [][NextReadOnly]_vars

-----------------------------------------------------------------------------
(* Claims about retrieve and the two searches *)

DocsOf(p) == store[p].documents

NoDocWithCwe(docs, cwe) == \A i \in 1..Len(docs) : docs[i].metadata.cwe # cwe

NoDocWithLanguage(docs, language) ==
    \A i \in 1..Len(docs) : ~HasLanguage(docs[i], language)

\* C1: when no document of the store has the queried weakness id and none has
\* the queried language, retrieve returns exactly the sentinel.
C1_SentinelWhenNothingMatches ==
    (call.op = "retrieve"
        /\ NoDocWithCwe(DocsOf(call.proc), call.cwe)
        /\ NoDocWithLanguage(DocsOf(call.proc), call.language))
    => (~call.raised /\ call.result = Sentinel)

\* C2: Tier 2 runs only if Tier 1 produced nothing; and when no document has
\* the queried weakness id but one has the queried language, retrieve falls
\* through to Tier 2 and returns the extracted content of a document of that
\* language.
C2_FallsThroughToTier2 ==
    call.op = "retrieve" =>
        /\ call.tier2 => call.tier1 = <<>>
        /\ (NoDocWithCwe(DocsOf(call.proc), call.cwe)
               /\ ~NoDocWithLanguage(DocsOf(call.proc), call.language))
           => /\ call.tier2
              /\ call.picked # <<>>
              /\ HasLanguage(call.picked[1], call.language)
              /\ call.result = ExtractFocusedContext(call.picked[1].content)

\* distance of the content embedding of the document at 0-based position i
ContentDist(p, i, qv) == Dist(store[p].full_text_index.rows[i + 1].vec, qv)

\* hits are the first min(k, |C|) members of C in ascending distance
IsTopKOf(p, hits, C, qv, k) ==
    /\ Len(hits) = Min(k, Cardinality(C))
    /\ \A a \in 1..Len(hits) : hits[a] \in C
    /\ \A a, b \in 1..Len(hits) : a # b => hits[a] # hits[b]
    /\ \A a, b \in 1..Len(hits) :
          a < b => ContentDist(p, hits[a], qv) <= ContentDist(p, hits[b], qv)
    /\ \A c \in C :
          (\A a \in 1..Len(hits) : hits[a] # c) =>
              \A a \in 1..Len(hits) : ContentDist(p, hits[a], qv) <= ContentDist(p, c, qv)

\* C3: with a language filter and k >= 1, search_full_text returns the first
\* min(k, |C|) documents of the candidate set C in ascending distance.
C3_FilteredSearchIsTopK ==
    (call.op = "search_full_text" /\ call.filter # None /\ call.k >= 1
        /\ store[call.proc].full_text_index # None)
    => IsTopKOf(call.proc, call.hits,
                CandidateIndices(DocsOf(call.proc), call.filter), call.qv, call.k)

\* C4: every document search_full_text returns under a language filter has
\* that language, and at most k documents are returned.
C4_FilteredAndAtMostK ==
    (call.op = "search_full_text" /\ call.filter # None)
    => /\ call.result # IndexError
       /\ \A j \in 1..Len(call.result) : HasLanguage(call.result[j], call.filter.language)
       /\ Len(call.result) <= call.k

EmptyCorpus == \A i \in 1..Len(recipes) : ~HeaderOK(recipes[i])

\* C5: on a corpus with no accepted recipe file the build is not an error: no
\* index is created and nothing is written, both searches return the empty
\* list and retrieve returns the sentinel.
C5_EmptyCorpus ==
    EmptyCorpus =>
        \A p \in Procs :
            /\ pc[p] # "failed"
            /\ pc[p] \notin {"encode", "mkdir", "write_cwe", "write_ft", "write_docs"}
            /\ (pc[p] = "ready" /\ origin[p] = "built") =>
                  /\ store[p] = EmptyStore
                  /\ disk = NoDisk
                  /\ (call.op \in {"search_cwe", "search_full_text"} /\ call.proc = p)
                        => call.result = <<>>
                  /\ (call.op = "retrieve" /\ call.proc = p)
                        => (~call.raised /\ call.result = Sentinel)

C5_Witness ==
    /\ Len(recipes) > 0
    /\ EmptyCorpus
    /\ pc[1] = "ready"
    /\ origin[1] = "built"
    /\ call.op = "retrieve"
    /\ call.result = Sentinel

\* distance of the weakness-id embedding of the document at 0-based position i
CweDist(p, i, qv) == Dist(store[p].cwe_index.rows[i + 1].vec, qv)

\* C10 as stated: on a built store, search_cwe with a document's own
\* weakness id returns that document first.
C10_SelfRetrievalFirst ==
    (call.op = "search_cwe" /\ origin[call.proc] = "built")
    => \A i \in 1..Len(DocsOf(call.proc)) :
          DocsOf(call.proc)[i].metadata.cwe = call.cwe
          => (call.result # IndexError /\ call.result # <<>>
                 /\ call.result[1] = DocsOf(call.proc)[i])

\* C10 amended: on a built store, search_cwe with a document's own weakness id
\* returns first a document whose weakness-id embedding is at distance 0 from
\* the query, and that is the document itself whenever no other document has
\* the same weakness-id embedding.
C10_SelfRetrievalAtDistanceZero ==
    (call.op = "search_cwe" /\ origin[call.proc] = "built")
    => \A i \in 1..Len(DocsOf(call.proc)) :
          DocsOf(call.proc)[i].metadata.cwe = call.cwe
          => /\ call.result # IndexError
             /\ call.hits # <<>>
             /\ call.hits[1] + 1 \in 1..Len(DocsOf(call.proc))
             /\ CweDist(call.proc, call.hits[1], call.qv) = 0
             /\ (\A j \in 1..Len(DocsOf(call.proc)) :
                    j # i => CweDist(call.proc, j - 1, call.qv) # 0)
                => (call.hits[1] = i - 1 /\ call.result[1] = DocsOf(call.proc)[i])

C10_Witness ==
    /\ call.op = "search_cwe"
    /\ origin[call.proc] = "built"
    /\ Len(DocsOf(call.proc)) = 2
    /\ DocsOf(call.proc)[2].metadata.cwe = call.cwe
    /\ DocsOf(call.proc)[1].metadata.cwe # call.cwe
    /\ CweDist(call.proc, 0, call.qv) # 0
    /\ call.hits[1] = 1

-----------------------------------------------------------------------------
(* Claims about parsing, construction and the snapshot *)

\* number of accepted files among the first i
Rank(i) == Cardinality({j \in 1..i : HeaderOK(recipes[j])})

Parsed(p) == pc[p] = "encode" \/ (pc[p] = "ready" /\ origin[p] = "built")

\* C9: a file whose first line is no header is skipped without an error and
\* without stopping the build; the documents are exactly the files with a
\* header, in parse order, numbered 0..n-1 without gaps.
C9_ParserSkipsMalformed ==
    \A p \in Procs :
        /\ pc[p] # "failed"
        /\ Parsed(p) =>
              /\ Len(fresh[p].documents) = Rank(Len(recipes))
              /\ \A i \in 1..Len(recipes) :
                    HeaderOK(recipes[i]) =>
                        /\ fresh[p].documents[Rank(i)].content = ReadRest(recipes[i])
                        /\ fresh[p].documents[Rank(i)].metadata.cwe =
                              Strip(AfterFirst(Strip(ReadLine(recipes[i])), ":"))

C9_Witness ==
    /\ pc[1] = "encode"
    /\ Len(recipes) = 2
    /\ ~HeaderOK(recipes[1])
    /\ HeaderOK(recipes[2])
    /\ Len(fresh[1].documents) = 1
    /\ fresh[1].documents[1].content = ReadRest(recipes[2])

\* document count equals the row count of both indices and the row with id i
\* holds the embeddings of the document at position i
Aligned(st) ==
    IF st.cwe_index = None \/ st.full_text_index = None
    THEN st = EmptyStore
    ELSE /\ Len(st.cwe_index.rows) = Len(st.documents)
         /\ Len(st.full_text_index.rows) = Len(st.documents)
         /\ \A i \in 1..Len(st.documents) :
               /\ st.cwe_index.rows[i].id = i - 1
               /\ st.full_text_index.rows[i].id = i - 1
               /\ st.cwe_index.rows[i].vec = enc[st.documents[i].metadata.cwe]
               /\ st.full_text_index.rows[i].vec = enc[st.documents[i].content]

\* C6: in every store construction leaves ready, built or loaded, the
\* document table and both indices have the same number of entries and index
\* id i refers to the document at position i.
C6_TableAndIndicesAligned ==
    \A p \in Procs : pc[p] = "ready" => Aligned(store[p])

OthersQuiet(p) == \A q \in Procs \ {p} : pc[q] \notin ActivePcs

\* C7: what an interrupted build leaves on disk is never taken for a valid
\* snapshot by a later construction: when no other process is at work, the
\* constructor takes the load branch only on a fully written snapshot.
C7_InterruptedBuildNotLoaded ==
    [][\A p \in Procs :
          (pc[p] \in {"idle", "init"} /\ pc'[p] = "load_cwe" /\ OthersQuiet(p))
          => SnapshotComplete]_vars

ReadStep(p) ==
    /\ pc[p] \in {"idle", "init", "load_cwe", "load_ft", "load_docs"}
    /\ pc'[p] # pc[p]

\* C8: while another process is inside rebuild_store, no process constructing
\* a store sees a snapshot directory that lacks one of its three files, nor
\* loses the snapshot between two of its reads.
C8_RebuildExcludesReads ==
    [][\A p \in Procs :
          (ReadStep(p) /\ \E q \in Procs \ {p} : rebuilding[q])
          => IF pc[p] \in {"idle", "init"}
             THEN disk.dir => SnapshotComplete
             ELSE SnapshotComplete]_vars

-----------------------------------------------------------------------------
(* Claims about persistence and the life of a store *)

\* the document lists search_cwe can return on st for query vector qv
CweResults(st, qv, k) ==
    {DocsAt(st.documents, hits) : hits \in SearchCwe(st, qv, k)}

\* the document lists search_full_text can return on st for query vector qv
FullTextResults(st, qv, k, filter) ==
    {DocsAt(st.documents, hits) : hits \in SearchFullText(st, qv, k, filter)}

RoundTripDone ==
    /\ pc[1] = "ready"
    /\ origin[1] = "built"
    /\ pc[2] = "ready"
    /\ origin[2] = "loaded"

\* C11: a store that loads the snapshot another store built and saved holds
\* the same table and indices; between calls the two stores have the same
\* possible results for every query vector, k and filter of search_cwe and
\* search_full_text, and every search or retrieve call on the loaded store
\* returns a result the store that wrote the snapshot returns for that query.
C11_RoundTripPersistence ==
    RoundTripDone =>
        /\ store[2] = store[1]
        /\ call = NoCall =>
              /\ \A qv \in Vec, k \in 1..MaxK :
                    CweResults(store[2], qv, k) = CweResults(store[1], qv, k)
              /\ \A qv \in Vec, k \in 0..MaxK, filter \in Filters :
                    FullTextResults(store[2], qv, k, filter) =
                        FullTextResults(store[1], qv, k, filter)
        /\ (call.op = "search_cwe" /\ call.proc = 2)
              => call.result \in CweResults(store[1], call.qv, call.k)
        /\ (call.op = "search_full_text" /\ call.proc = 2)
              => call.result \in FullTextResults(store[1], call.qv, call.k, call.filter)
        /\ (call.op = "retrieve" /\ call.proc = 2)
              => /\ ~call.raised
                 /\ ~call.tier2
                 /\ \E qv \in Vec :
                       /\ call.tier1 \in CweResults(store[1], qv, 1)
                       /\ call.result = RetrieveResult(call.tier1[1].content)

C11_Witness ==
    /\ RoundTripDone
    /\ Len(store[2].documents) = 2
    /\ store[2].cwe_index.rows # store[2].full_text_index.rows
    /\ call.op = "retrieve"
    /\ call.proc = 2
    /\ call.result # Sentinel

CallStep == call' # call

\* C12: a search or retrieve call, and its return, change neither the document
\* table nor an index of any store, nor the snapshot on disk, nor the corpus;
\* a constructed store and the snapshot it goes with are replaced only by
\* steps of rebuild_store.
C12_ReadOnlyAfterConstruction ==
    [][/\ CallStep => (store' = store /\ fresh' = fresh /\ disk' = disk
                          /\ recipes' = recipes /\ origin' = origin)
       /\ \A p \in Procs :
             (origin[p] # "none" /\ (store'[p] # store[p] \/ disk' # disk))
             => rebuilding[p]]_vars

C12_Witness ==
    /\ call.op = "search_full_text"
    /\ call.result # <<>>
    /\ origin[1] = "built"
    /\ Len(store[1].documents) = 2
    /\ SnapshotComplete
    /\ disk.docs.table = store[1].documents

BuildPcs == {"build", "encode", "mkdir", "write_cwe", "write_ft", "write_docs"}

\* C13: the constructor takes the load branch exactly when index_path is a
\* directory and otherwise builds from the corpus, and that build is carried
\* through and leaves the table and both indices under index_path; when a
\* construction on a non-empty corpus returns, a complete snapshot exists,
\* and the next construction loads it.
C13_LoadIffDirectoryElseBuild ==
    [][\A p \in Procs :
          /\ (pc[p] \in {"idle", "init"} /\ pc'[p] # pc[p])
                => pc'[p] = IF disk.dir THEN "load_cwe" ELSE "build"
          /\ pc[p] \in BuildPcs => pc'[p] # "failed"
          /\ (pc[p] = "write_docs" /\ pc'[p] = "ready")
                => /\ disk'.cwe = store'[p].cwe_index
                   /\ disk'.ft = store'[p].full_text_index
                   /\ disk'.docs = [table |-> store'[p].documents]
          /\ (pc[p] # "ready" /\ pc'[p] = "ready" /\ ~EmptyCorpus)
                => SnapshotComplete'
          /\ (pc[p] = "idle" /\ pc'[p] # "idle" /\ ~EmptyCorpus
                 /\ \E q \in Procs \ {p} : pc[q] = "ready")
                => pc'[p] = "load_cwe"]_vars

-----------------------------------------------------------------------------
(* Claims about the context extractor *)

\* the four fields of a content, in the fixed order
FieldsOf(content) ==
    <<NameOf(content), DescriptionOf(content), ChecklistOf(content), FixIdeaOf(content)>>

\* a field with its label
Labelled(fields, i) ==
    CASE i = 1 -> <<"**">> \o fields[1] \o <<"**">>
      [] i = 2 -> fields[2]
      [] i = 3 -> <<"**Checklist:**", "\n">> \o fields[3]
      [] i = 4 -> <<"**Fix Idea:**", "\n">> \o fields[4]

\* fields i..4: each non-empty one with its label, and a double line break
\* after it when a non-empty field follows
RECURSIVE Layout(_, _)
Layout(fields, i) ==
    IF i > 4 THEN <<>>
    ELSE IF fields[i] = <<>> THEN Layout(fields, i + 1)
    ELSE Labelled(fields, i)
         \o (IF \E j \in (i + 1)..4 : fields[j] # <<>> THEN <<"\n", "\n">> ELSE <<>>)
         \o Layout(fields, i + 1)

Present(fields) == {i \in 1..4 : fields[i] # <<>>}

\* C14 as stated: the result is the non-empty fields in the order title,
\* description, checklist, fix idea, labelled and joined by a double line
\* break, and it is the sentinel exactly when no field is non-empty.
C14_ExtractLayoutSentinelIff ==
    call.op = "extract" =>
        LET fields == FieldsOf(call.content)
        IN  /\ (call.result = Sentinel) <=> (Present(fields) = {})
            /\ Present(fields) # {} => call.result = Layout(fields, 1)

\* C14 amended: the layout as stated; the sentinel is returned when no field
\* is non-empty, and a result with a field in it equals the sentinel text
\* only when the description is the one field found and is that text.
C14_ExtractLayout ==
    call.op = "extract" =>
        LET fields == FieldsOf(call.content)
        IN  /\ Present(fields) = {} => call.result = Sentinel
            /\ Present(fields) # {} => call.result = Layout(fields, 1)
            /\ (Present(fields) # {} /\ call.result = Sentinel)
                  => (Present(fields) = {2} /\ fields[2] = Sentinel)

C14_Witness ==
    /\ call.op = "extract"
    /\ Present(FieldsOf(call.content)) = 1..4
    /\ call.result # Sentinel
    /\ Len(call.result) > Len(Layout(FieldsOf(call.content), 4)) + 2

-----------------------------------------------------------------------------
(* Claims about the behaviour of the tiers on the stores the code builds *)

C16_BuiltStoreHasNoLanguages ==
    /\ \A p \in Procs :
          (Parsed(p) \/ pc[p] \in {"mkdir", "write_cwe", "write_ft", "write_docs"})
          => \A i \in 1..Len(fresh[p].documents) :
                /\ fresh[p].documents[i].metadata.tags = <<>>
                /\ fresh[p].documents[i].metadata.languages = <<>>
    /\ (call.op = "search_full_text" /\ call.filter # None
           /\ origin[call.proc] = "built")
          => (call.hits = <<>> /\ call.result = <<>>)
    /\ (call.op = "retrieve" /\ call.tier2 /\ origin[call.proc] = "built")
          => call.picked = <<>>

C16_Witness ==
    /\ call.op = "search_full_text"
    /\ call.filter # None
    /\ call.k >= 1
    /\ origin[call.proc] = "built"
    /\ Len(DocsOf(call.proc)) = 2
    /\ call.result = <<>>

=============================================================================
